---- MODULE Spec2Model ----
(***************************************************************************)
(* Model of pyvista/core/validate/array_validators.py: the general array   *)
(* validator validate_array, its specialized wrappers, and validate_axes.  *)
(*                                                                         *)
(* The validators are pure functions, so each is an operator computed the  *)
(* way the code computes it, and each specification below draws the        *)
(* arguments of a call from bounded sets and applies the validator in one  *)
(* step (pc: "idle" -> "done"), recording the arguments and the outcome.   *)
(*                                                                         *)
(* Numbers.  A number is a record [k, v]:                                  *)
(*   k = "fin"  a finite number, v counts HALVES (v = 3 is 1.5), so that   *)
(*              floor, truncation and fractional values are exact;         *)
(*   k = "nan"  NaN (v = 0);                                               *)
(*   k = "inf"  +infinity (v = 1) or -infinity (v = -1);                   *)
(*   k = "imin" the most negative integer of an integer dtype (v = 0), one *)
(*              of the values an out-of-domain float -> int cast yields.   *)
(* Arrays.  An ndarray is a record [shape, data, dtype]: shape a sequence  *)
(* of dimensions (<<>> is 0-d), data the elements in row-major order,      *)
(* dtype one of "int", "float", "complex", "bool".                         *)
(* Optional arguments.  A keyword argument is <<>> when the caller did not *)
(* pass it (or passed None) and <<x>> when the caller passed x.            *)
(* Inputs.  An array-like input (number, nested sequence, ndarray) is      *)
(* given as the ndarray that cast_to_ndarray builds from it; len() of the  *)
(* input is then its first dimension (1 for a number).                     *)
(***************************************************************************)
EXTENDS Integers, Sequences, FiniteSets, TLC

VARIABLES pc, fn, args, res

vars == <<pc, fn, args, res>>

(***************************************************************************)
(* Bounds of the model.                                                    *)
(***************************************************************************)
\* longest 1-d input (and widest (1,n) / tallest (n,1) input) with free values
MaxLen == 2
\* largest factor by which the vectors given to validate_axes are scaled
MaxScale == 1
\* number of callers that run validators at the same time
NumCallers == 2

(***************************************************************************)
(* Numbers                                                                 *)
(***************************************************************************)
Fin(h) == [k |-> "fin", v |-> h]
Whole(n) == Fin(2 * n)
NaN == [k |-> "nan", v |-> 0]
PosInf == [k |-> "inf", v |-> 1]
NegInf == [k |-> "inf", v |-> -1]
IntMin == [k |-> "imin", v |-> 0]

IsNaN(x) == x.k = "nan"
\* np.isfinite
IsFinite(x) == x.k \in {"fin", "imin"}

\* position of a non-NaN number among the classes -inf < imin < finite < +inf
Cls(x) == CASE x.k = "fin" -> 0
            [] x.k = "imin" -> -1
            [] x.k = "inf" -> 2 * x.v
            [] OTHER -> 0

\* IEEE comparisons: every comparison with NaN is false
Lt(x, y) == /\ ~IsNaN(x)
            /\ ~IsNaN(y)
            /\ \/ Cls(x) < Cls(y)
               \/ Cls(x) = Cls(y) /\ x.k = "fin" /\ x.v < y.v
Eq(x, y) == ~IsNaN(x) /\ ~IsNaN(y) /\ x = y
Le(x, y) == Lt(x, y) \/ Eq(x, y)

\* np.floor: the largest whole number not above x; NaN and infinities unchanged
Floor(x) == IF x.k = "fin" THEN Fin(x.v - (x.v % 2)) ELSE x

\* float -> int conversion of a finite number truncates toward zero
Trunc(x) == IF x.k # "fin" THEN x
            ELSE IF x.v >= 0 THEN Fin(x.v - (x.v % 2))
            ELSE Fin(0 - ((0 - x.v) - ((0 - x.v) % 2)))

(***************************************************************************)
(* Shapes and arrays (numpy)                                               *)
(***************************************************************************)
RECURSIVE Prod(_)
Prod(s) == IF s = <<>> THEN 1 ELSE Head(s) * Prod(Tail(s))

Size(a) == Prod(a.shape)

MkArray(shape, data, dtype) == [shape |-> shape, data |-> data, dtype |-> dtype]

\* the dimensions of a reshape target other than its -1
RECURSIVE Known(_)
Known(t) == IF t = <<>> THEN <<>>
            ELSE IF Head(t) = -1 THEN Known(Tail(t))
            ELSE <<Head(t)>> \o Known(Tail(t))

\* ndarray.reshape(target): target may hold one -1, inferred from the size
CanReshape(a, t) ==
    LET n == Size(a)
        p == Prod(Known(t))
    IN  IF Len(Known(t)) = Len(t) THEN p = n
        ELSE /\ Len(Known(t)) = Len(t) - 1
             /\ p > 0
             /\ n % p = 0

ReshapedShape(a, t) ==
    [i \in 1..Len(t) |-> IF t[i] = -1 THEN Size(a) \div Prod(Known(t)) ELSE t[i]]

Reshape(a, t) == MkArray(ReshapedShape(a, t), a.data, a.dtype)

\* the shape padded on the left with 1s to n dimensions
PadShape(s, n) == [i \in 1..n |-> IF i <= n - Len(s) THEN 1 ELSE s[i - (n - Len(s))]]

\* np.broadcast_to(a, target): trailing dimensions must be equal or 1
CanBroadcast(a, t) ==
    /\ Len(a.shape) <= Len(t)
    /\ \A i \in 1..Len(t) : t[i] >= 0
    /\ LET p == PadShape(a.shape, Len(t))
       IN  \A i \in 1..Len(t) : p[i] = t[i] \/ p[i] = 1

\* row-major strides of a shape
RECURSIVE Stride(_, _)
Stride(s, i) == IF i >= Len(s) THEN 1 ELSE s[i + 1] * Stride(s, i + 1)

\* the i-th coordinate (0-based) of the element at 0-based flat position q
Coord(s, q, i) == (q \div Stride(s, i)) % s[i]

RECURSIVE SumSeq(_)
SumSeq(s) == IF s = <<>> THEN 0 ELSE Head(s) + SumSeq(Tail(s))

BroadcastTo(a, t) ==
    LET p == PadShape(a.shape, Len(t))
        src(q) == SumSeq([i \in 1..Len(t) |->
                            IF p[i] = 1 THEN 0 ELSE Coord(t, q, i) * Stride(p, i)])
    IN  MkArray(t, [q \in 1..Prod(t) |-> a.data[src(q - 1) + 1]], a.dtype)

(***************************************************************************)
(* Keyword arguments                                                       *)
(***************************************************************************)
Has(o) == o # <<>>
Get(o) == o[1]
GetOr(o, d) == IF o = <<>> THEN d ELSE o[1]

\* a shape as the caller writes it: a tuple (1, 3), or a bare int as in (-1) or 2
Shp(dims) == [int |-> FALSE, dims |-> dims]
ShpInt(n) == [int |-> TRUE, dims |-> <<n>>]
\* must_have_shape: one shape, or a list of alternative shapes
OneShape(s) == [list |-> FALSE, items |-> <<s>>]
ShapeList(ss) == [list |-> TRUE, items |-> ss]

\* must_be_sorted: True / False, or a dict of check_sorted's keywords
SortedFlag(b) == [kind |-> "bool", on |-> b, ascending |-> TRUE, strict |-> FALSE]
SortedDict(asc, str) == [kind |-> "dict", on |-> TRUE, ascending |-> asc, strict |-> str]

KwNames == {"must_have_shape", "must_have_dtype", "must_have_length",
            "must_have_min_length", "must_have_max_length", "must_be_nonnegative",
            "must_be_finite", "must_be_real", "must_be_integer_like",
            "must_be_sorted", "must_be_in_range", "strict_lower_bound",
            "strict_upper_bound", "reshape_to", "broadcast_to", "dtype_out",
            "to_list", "to_tuple"}

\* a call that passes no keyword argument
NoKw == [n \in KwNames |-> <<>>]

\* `a` with the arguments of `b` that are passed laid over it
Over(a, b) == [n \in KwNames |-> IF b[n] = <<>> THEN a[n] ELSE b[n]]

(***************************************************************************)
(* Outcomes of a call                                                      *)
(***************************************************************************)
NoArray == MkArray(<<>>, <<>>, "none")

\* a normal return: the value and the container it is returned in
Returned(a, c) == [status |-> "ok", stage |-> "return", value |-> a,
                   container |-> c, param |-> "", fname |-> ""]
\* a raised exception: its kind and the check that raised it
Raised(kind, stage) == [status |-> kind, stage |-> stage, value |-> NoArray,
                        container |-> "", param |-> "", fname |-> ""]
\* the error of a rejected override: the parameter and the function it names
RaisedOverride(kind, key, f) == [status |-> kind, stage |-> "override",
                                 value |-> NoArray, container |-> "",
                                 param |-> key, fname |-> f]
IsOk(r) == r.status = "ok"

(***************************************************************************)
(* The checkers of pyvista.core.validate.array_checkers                    *)
(***************************************************************************)
\* _shape_is_allowed: same rank and every dimension equal or allowed as -1
ShapeIsAllowed(a, b) ==
    /\ Len(a) = Len(b)
    /\ \A i \in 1..Len(a) : a[i] = b[i] \/ b[i] = -1

\* check_shape: the array's shape matches one of the allowed shapes
check_shape(a, shape) ==
    \E i \in 1..Len(shape.items) : ShapeIsAllowed(a.shape, shape.items[i].dims)

\* len() of the array-like handed to check_length with allow_scalar=True
LenOf(a) == IF a.shape = <<>> THEN 1 ELSE a.shape[1]

\* check_length: exact (one of), minimum and maximum length
check_length(a, exact, min, max) ==
    /\ Has(exact) => LenOf(a) \in Get(exact)
    /\ Has(min) => LenOf(a) >= Get(min)
    /\ Has(max) => LenOf(a) <= Get(max)

\* check_real: the dtype is integer or floating
check_real(a) == a.dtype \in {"int", "float"}

\* check_subdtype(arr, np.number)
check_numeric(a) == a.dtype \in {"int", "float", "complex"}

\* check_subdtype(arr, must_have_dtype): the dtype is one of the given kinds
check_subdtype(a, kinds) == a.dtype \in kinds

Elems(a) == {a.data[i] : i \in 1..Len(a.data)}

\* check_nonnegative: np.all(arr >= 0)
check_nonnegative(a) == \A x \in Elems(a) : Le(Whole(0), x)

\* check_finite: np.all(np.isfinite(arr))
check_finite(a) == \A x \in Elems(a) : IsFinite(x)

\* check_integerlike(strict=False): np.array_equal(arr, np.floor(arr))
check_integerlike(a) == \A x \in Elems(a) : Eq(x, Floor(x))

\* check_range: the range is itself a valid data range, and every element is
\* above the lower and below the upper bound (strictly, if asked)
check_range(a, rng, strict_lower, strict_upper) ==
    /\ Le(rng[1], rng[2])
    /\ \A x \in Elems(a) :
          /\ IF strict_lower THEN Lt(rng[1], x) ELSE Le(rng[1], x)
          /\ IF strict_upper THEN Lt(x, rng[2]) ELSE Le(x, rng[2])

\* the flat positions p whose successor p + 1 lies in the same row (last axis)
RowPairs(a) ==
    IF a.shape = <<>> THEN {}
    ELSE {p \in 1..(Len(a.data) - 1) : p % a.shape[Len(a.shape)] # 0}

\* check_sorted along the last axis; a 0-d array is sorted
check_sorted(a, ascending, strict) ==
    \A p \in RowPairs(a) :
        LET x == a.data[p]
            y == a.data[p + 1]
        IN  CASE ascending /\ ~strict -> Le(x, y)
              [] ascending /\ strict -> Lt(x, y)
              [] ~ascending /\ ~strict -> Le(y, x)
              [] OTHER -> Lt(y, x)

(***************************************************************************)
(* validate_array                                                          *)
(***************************************************************************)
\* `arr_out.shape != reshape_to`: a tuple never equals a bare int
ShapeDiffers(shape, target) == target.int \/ shape # target.dims

\* the reshape requested by reshape_to is taken and numpy cannot do it
ReshapeFails(a, kw) ==
    /\ Has(kw.reshape_to)
    /\ ShapeDiffers(a.shape, Get(kw.reshape_to))
    /\ ~CanReshape(a, Get(kw.reshape_to).dims)

\* arr_out after the reshape step
ReshapeStep(a, kw) ==
    IF Has(kw.reshape_to) /\ ShapeDiffers(a.shape, Get(kw.reshape_to))
    THEN Reshape(a, Get(kw.reshape_to).dims)
    ELSE a

BroadcastFails(a, kw) ==
    /\ Has(kw.broadcast_to)
    /\ ShapeDiffers(a.shape, Get(kw.broadcast_to))
    /\ ~CanBroadcast(a, Get(kw.broadcast_to).dims)

\* arr_out after the broadcast step
BroadcastStep(a, kw) ==
    IF Has(kw.broadcast_to) /\ ShapeDiffers(a.shape, Get(kw.broadcast_to))
    THEN BroadcastTo(a, Get(kw.broadcast_to).dims)
    ELSE a

\* the array handed to check_shape: arr_out as converted, before any reshape
ShapeCheckSubject_AfterReshape(arr_out, kw) ==
    IF ReshapeFails(arr_out, kw) THEN arr_out ELSE ReshapeStep(arr_out, kw)
ShapeCheckSubject(arr_out, kw) == arr_out

\* the array handed to check_length: the input `arr`, not the reshaped and
\* broadcast `arr_out`
LengthCheckSubject(arr, arr_out) == arr

\* the array handed to the value checks: arr_out after reshape and broadcast
ValueCheckSubject_Input(arr, arr_out) == arr
ValueCheckSubject(arr, arr_out) == arr_out

\* ndarray.astype(dtype_out): float -> int truncates a finite value; NaN and
\* the infinities have no integer value and the conversion yields `ub`
Astype(a, dt, ub) ==
    IF dt \in {"int", "int32"}
    THEN MkArray(a.shape,
                 [i \in 1..Len(a.data) |->
                    IF a.data[i].k \in {"nan", "inf"} THEN ub ELSE Trunc(a.data[i])],
                 dt)
    ELSE MkArray(a.shape, a.data, dt)

\* the array returned: cast to dtype_out when one is given
OutputArray_NoCast(a, kw, ub) == a
OutputArray(a, kw, ub) ==
    IF Has(kw.dtype_out) THEN Astype(a, Get(kw.dtype_out), ub) ELSE a

\* the container of the return value; tolist() and cast_to_tuple_array give
\* a plain number for a 0-d array
OutputContainer_ListFirst(a, kw) ==
    IF GetOr(kw.to_list, FALSE) THEN (IF a.shape = <<>> THEN "number" ELSE "list")
    ELSE IF GetOr(kw.to_tuple, FALSE) THEN (IF a.shape = <<>> THEN "number" ELSE "tuple")
    ELSE "ndarray"
OutputContainer(a, kw) ==
    IF GetOr(kw.to_tuple, FALSE) THEN (IF a.shape = <<>> THEN "number" ELSE "tuple")
    ELSE IF GetOr(kw.to_list, FALSE) THEN (IF a.shape = <<>> THEN "number" ELSE "list")
    ELSE "ndarray"

\* the first value check that fails, in the order of the code ("" when none)
ValueCheckFailure(a, kw) ==
    CASE GetOr(kw.must_be_nonnegative, FALSE) /\ ~check_nonnegative(a) -> "nonnegative"
      [] GetOr(kw.must_be_finite, FALSE) /\ ~check_finite(a) -> "finite"
      [] GetOr(kw.must_be_integer_like, FALSE) /\ ~check_integerlike(a) -> "integer_like"
      [] /\ Has(kw.must_be_in_range)
         /\ ~check_range(a, Get(kw.must_be_in_range),
                         GetOr(kw.strict_lower_bound, FALSE),
                         GetOr(kw.strict_upper_bound, FALSE)) -> "range"
      [] /\ Has(kw.must_be_sorted)
         /\ Get(kw.must_be_sorted).on
         /\ ~check_sorted(a, Get(kw.must_be_sorted).ascending,
                          Get(kw.must_be_sorted).strict) -> "sorted"
      [] OTHER -> ""

\* validate_array(arr, **kw); ub is what an undefined float -> int cast yields
validate_array_ValueChecksFirst(arr, kw, ub) ==
    IF GetOr(kw.must_be_real, TRUE) /\ ~check_real(arr)
    THEN Raised("TypeError", "real")
    ELSE IF ~GetOr(kw.must_be_real, TRUE) /\ ~check_numeric(arr)
    THEN Raised("TypeError", "numeric")
    ELSE IF Has(kw.must_have_dtype) /\ ~check_subdtype(arr, Get(kw.must_have_dtype))
    THEN Raised("TypeError", "dtype")
    ELSE IF ValueCheckFailure(arr, kw) # ""
    THEN Raised("ValueError", ValueCheckFailure(arr, kw))
    ELSE IF Has(kw.must_have_shape) /\ ~check_shape(arr, Get(kw.must_have_shape))
    THEN Raised("ValueError", "shape")
    ELSE IF ReshapeFails(arr, kw)
    THEN Raised("ValueError", "reshape")
    ELSE IF BroadcastFails(ReshapeStep(arr, kw), kw)
    THEN Raised("ValueError", "broadcast")
    ELSE IF /\ \/ Has(kw.must_have_length)
               \/ Has(kw.must_have_min_length)
               \/ Has(kw.must_have_max_length)
            /\ ~check_length(arr, kw.must_have_length,
                             kw.must_have_min_length, kw.must_have_max_length)
    THEN Raised("ValueError", "length")
    ELSE Returned(OutputArray(BroadcastStep(ReshapeStep(arr, kw), kw), kw, ub),
                  OutputContainer(BroadcastStep(ReshapeStep(arr, kw), kw), kw))
validate_array(arr, kw, ub) ==
    LET arr_out == arr
        reshaped == ReshapeStep(arr_out, kw)
        broadcast == BroadcastStep(reshaped, kw)
        checked == ValueCheckSubject(arr, broadcast)
        out == OutputArray(broadcast, kw, ub)
    IN  IF GetOr(kw.must_be_real, TRUE) /\ ~check_real(arr_out)
        THEN Raised("TypeError", "real")
        ELSE IF ~GetOr(kw.must_be_real, TRUE) /\ ~check_numeric(arr_out)
        THEN Raised("TypeError", "numeric")
        ELSE IF Has(kw.must_have_dtype) /\ ~check_subdtype(arr_out, Get(kw.must_have_dtype))
        THEN Raised("TypeError", "dtype")
        ELSE IF /\ Has(kw.must_have_shape)
                /\ ~check_shape(ShapeCheckSubject(arr_out, kw), Get(kw.must_have_shape))
        THEN Raised("ValueError", "shape")
        ELSE IF ReshapeFails(arr_out, kw)
        THEN Raised("ValueError", "reshape")
        ELSE IF BroadcastFails(reshaped, kw)
        THEN Raised("ValueError", "broadcast")
        ELSE IF /\ \/ Has(kw.must_have_length)
                   \/ Has(kw.must_have_min_length)
                   \/ Has(kw.must_have_max_length)
                /\ ~check_length(LengthCheckSubject(arr, broadcast), kw.must_have_length,
                                 kw.must_have_min_length, kw.must_have_max_length)
        THEN Raised("ValueError", "length")
        ELSE IF ValueCheckFailure(checked, kw) # ""
        THEN Raised("ValueError", ValueCheckFailure(checked, kw))
        ELSE Returned(out, OutputContainer(out, kw))

(***************************************************************************)
(* _set_default_kwarg_mandatory and the specialized wrappers               *)
(***************************************************************************)
\* kwargs.setdefault(key, value)
SetDefault(kwargs, key, value) ==
    IF kwargs[key] = <<>> THEN [kwargs EXCEPT ![key] = <<value>>] ELSE kwargs

\* val = kwargs.pop(key, default); val != default
KwargOverridden(kwargs, key, default) == GetOr(kwargs[key], default) # default

\* kwargs[key] = default
SetDefaultKwargMandatory(kwargs, key, default) == [kwargs EXCEPT ![key] = <<default>>]

\* the error of a rejected override; calling_fname is inspect.stack()[1].function,
\* the function whose body calls _set_default_kwarg_mandatory
OverrideError_TypeError(key, calling_fname) ==
    RaisedOverride("TypeError", key, calling_fname)
OverrideError_OwnFrame(key, calling_fname) ==
    RaisedOverride("ValueError", key, "_set_default_kwarg_mandatory")
OverrideError(key, calling_fname) == RaisedOverride("ValueError", key, calling_fname)

\* the finiteness default of validate_number, set with setdefault
NumberFiniteDefault_Off(kwargs) == kwargs
NumberFiniteDefault(kwargs) == SetDefault(kwargs, "must_be_finite", TRUE)

\* validate_number(num, reshape=reshape, **kwargs)
validate_number(num, reshape, kwargs, ub) ==
    LET kw1 == SetDefault(NumberFiniteDefault(SetDefault(kwargs, "to_list", TRUE)),
                          "must_be_real", TRUE)
        shape == IF reshape THEN ShapeList(<<Shp(<<>>), Shp(<<1>>)>>)
                 ELSE OneShape(Shp(<<>>))
        kw2 == IF reshape THEN SetDefaultKwargMandatory(kw1, "reshape_to", Shp(<<>>))
               ELSE kw1
    IN  IF reshape /\ KwargOverridden(kw1, "reshape_to", Shp(<<>>))
        THEN OverrideError("reshape_to", "validate_number")
        ELSE IF KwargOverridden(kw2, "must_have_shape", shape)
        THEN OverrideError("must_have_shape", "validate_number")
        ELSE validate_array(num, SetDefaultKwargMandatory(kw2, "must_have_shape", shape), ub)

\* the sortedness pinned by validate_data_range
DataRangeSorted_Strict == SortedDict(TRUE, TRUE)
DataRangeSorted == SortedFlag(TRUE)

\* validate_data_range(rng, **kwargs)
validate_data_range(rng, kwargs, ub) ==
    LET shape == OneShape(ShpInt(2))
        kw1 == SetDefaultKwargMandatory(kwargs, "must_have_shape", shape)
        kw2 == SetDefaultKwargMandatory(kw1, "must_be_sorted", DataRangeSorted)
        kw3 == IF kw2["to_list"] = <<>> THEN SetDefault(kw2, "to_tuple", TRUE) ELSE kw2
    IN  IF KwargOverridden(kwargs, "must_have_shape", shape)
        THEN OverrideError("must_have_shape", "validate_data_range")
        ELSE IF KwargOverridden(kw1, "must_be_sorted", DataRangeSorted)
        THEN OverrideError("must_be_sorted", "validate_data_range")
        ELSE validate_array(rng, kw3, ub)

\* the reshape target pinned by validate_arrayNx3
Nx3ReshapeTo_Flat == ShpInt(-1)
Nx3ReshapeTo == Shp(<<-1, 3>>)

\* validate_arrayNx3(arr, reshape=reshape, **kwargs)
validate_arrayNx3(arr, reshape, kwargs, ub) ==
    LET shape == IF reshape THEN ShapeList(<<ShpInt(3), Shp(<<-1, 3>>)>>)
                 ELSE OneShape(Shp(<<-1, 3>>))
        kw1 == IF reshape THEN SetDefaultKwargMandatory(kwargs, "reshape_to", Nx3ReshapeTo)
               ELSE kwargs
    IN  IF reshape /\ KwargOverridden(kwargs, "reshape_to", Nx3ReshapeTo)
        THEN OverrideError("reshape_to", "validate_arrayNx3")
        ELSE IF KwargOverridden(kw1, "must_have_shape", shape)
        THEN OverrideError("must_have_shape", "validate_arrayNx3")
        ELSE validate_array(arr, SetDefaultKwargMandatory(kw1, "must_have_shape", shape), ub)

\* validate_arrayN(arr, reshape=reshape, **kwargs)
validate_arrayN(arr, reshape, kwargs, ub) ==
    LET shape == IF reshape
                 THEN ShapeList(<<Shp(<<>>), ShpInt(-1), Shp(<<1, -1>>)>>)
                 ELSE OneShape(ShpInt(-1))
        kw1 == IF reshape THEN SetDefaultKwargMandatory(kwargs, "reshape_to", ShpInt(-1))
               ELSE kwargs
    IN  IF reshape /\ KwargOverridden(kwargs, "reshape_to", ShpInt(-1))
        THEN OverrideError("reshape_to", "validate_arrayN")
        ELSE IF KwargOverridden(kw1, "must_have_shape", shape)
        THEN OverrideError("must_have_shape", "validate_arrayN")
        ELSE validate_array(arr, SetDefaultKwargMandatory(kw1, "must_have_shape", shape), ub)

\* check_subdtype(dtype_out, np.integer)
IsIntegerDtype(dt) == dt \in {"int", "int32"}

\* the value checks pinned by validate_arrayN_uintlike
UintlikePins_None(kwargs) == kwargs
UintlikePins(kwargs) ==
    SetDefaultKwargMandatory(
        SetDefaultKwargMandatory(kwargs, "must_be_integer_like", TRUE),
        "must_be_nonnegative", TRUE)

\* validate_arrayN_uintlike(arr, reshape=reshape, **kwargs)
validate_arrayN_uintlike(arr, reshape, kwargs, ub) ==
    LET kw1 == SetDefault(kwargs, "dtype_out", "int")
    IN  IF Get(kw1["dtype_out"]) # "int" /\ ~IsIntegerDtype(Get(kw1["dtype_out"]))
        THEN Raised("TypeError", "dtype_out")
        ELSE IF KwargOverridden(kw1, "must_be_integer_like", TRUE)
        THEN OverrideError("must_be_integer_like", "validate_arrayN_uintlike")
        ELSE IF KwargOverridden(kw1, "must_be_nonnegative", TRUE)
        THEN OverrideError("must_be_nonnegative", "validate_arrayN_uintlike")
        ELSE validate_arrayN(arr, reshape, UintlikePins(kw1), ub)

\* the shapes validate_array3 accepts
Array3Shapes_NoColumn(reshape, broadcast) ==
    <<Shp(<<3>>)>>
        \o (IF reshape THEN <<Shp(<<1, 3>>)>> ELSE <<>>)
        \o (IF broadcast THEN <<Shp(<<>>), Shp(<<1>>)>> ELSE <<>>)
Array3Shapes(reshape, broadcast) ==
    <<Shp(<<3>>)>>
        \o (IF reshape THEN <<Shp(<<1, 3>>), Shp(<<3, 1>>)>> ELSE <<>>)
        \o (IF broadcast THEN <<Shp(<<>>), Shp(<<1>>)>> ELSE <<>>)

\* validate_array3(arr, reshape=reshape, broadcast=broadcast, **kwargs)
validate_array3(arr, reshape, broadcast, kwargs, ub) ==
    LET shape == ShapeList(Array3Shapes(reshape, broadcast))
        kw1 == IF reshape THEN SetDefaultKwargMandatory(kwargs, "reshape_to", ShpInt(-1))
               ELSE kwargs
        kw2 == IF broadcast THEN SetDefaultKwargMandatory(kw1, "broadcast_to", Shp(<<3>>))
               ELSE kw1
    IN  IF reshape /\ KwargOverridden(kwargs, "reshape_to", ShpInt(-1))
        THEN OverrideError("reshape_to", "validate_array3")
        ELSE IF broadcast /\ KwargOverridden(kw1, "broadcast_to", Shp(<<3>>))
        THEN OverrideError("broadcast_to", "validate_array3")
        ELSE IF KwargOverridden(kw2, "must_have_shape", shape)
        THEN OverrideError("must_have_shape", "validate_array3")
        ELSE validate_array(arr, SetDefaultKwargMandatory(kw2, "must_have_shape", shape), ub)

(***************************************************************************)
(* validate_axes                                                           *)
(*                                                                         *)
(* The rows of axes_array are kept as integer vectors counting QUARTERS:   *)
(* an input row of halves h is 2h, and the cross product of two input rows *)
(* of halves h0, h1 is h0 x h1.  A normalized row r / |r| is kept as r     *)
(* with the frame marked `unit`.  Dot products of rows count sixteenths.   *)
(* For the whole-number vectors of the specification np.isclose and        *)
(* np.allclose decide as exact equality does.                              *)
(***************************************************************************)
Dot(a, b) == a[1] * b[1] + a[2] * b[2] + a[3] * b[3]

Cross(a, b) == <<a[2] * b[3] - a[3] * b[2],
                 a[3] * b[1] - a[1] * b[3],
                 a[1] * b[2] - a[2] * b[1]>>

Neg(a) == <<0 - a[1], 0 - a[2], 0 - a[3]>>

\* the row of quarters held by a validated 3-vector of halves
RowOf(a, i) == <<2 * a.data[3 * i - 2].v, 2 * a.data[3 * i - 1].v, 2 * a.data[3 * i].v>>

Sign(n) == IF n > 0 THEN 1 ELSE IF n < 0 THEN -1 ELSE 0

\* u / sqrt(S) = v / sqrt(T), for S, T > 0
SameRatio(u, S, v, T) == Sign(u) = Sign(v) /\ u * u * T = v * v * S

\* np.allclose(cross(a/|a|, b/|b|), c/|c|): a x b / (|a||b|) against c / |c|
CrossIsRow(a, b, c) ==
    \A i \in 1..3 : SameRatio(Cross(a, b)[i], Dot(a, a) * Dot(b, b), c[i], Dot(c, c))

\* the third axis computed from two vectors (rows of quarters a, b given as
\* 2h0, 2h1: the cross product of the rows themselves counts quarters / 4)
ThirdAxis_FirstCrossSecond(a, b, orientation) ==
    <<Cross(a, b)[1] \div 4, Cross(a, b)[2] \div 4, Cross(a, b)[3] \div 4>>
ThirdAxis(a, b, orientation) ==
    IF orientation = "right"
    THEN <<Cross(a, b)[1] \div 4, Cross(a, b)[2] \div 4, Cross(a, b)[3] \div 4>>
    ELSE <<Cross(b, a)[1] \div 4, Cross(b, a)[2] \div 4, Cross(b, a)[3] \div 4>>

\* np.isclose(np.dot(axes_array[0], axes_array[1]), 1) or the same of rows 0, 2
AxesParallel(A) == Dot(A[1], A[2]) = 16 \/ Dot(A[1], A[3]) = 16

\* np.any(np.all(np.isclose(axes_array, np.zeros(3)), axis=1))
AxesZero(A) == \E i \in 1..3 : A[i] = <<0, 0, 0>>

\* the cross products of the normalized rows align, up to sign, with the third
AxesOrthogonal(A) ==
    /\ CrossIsRow(A[1], A[2], A[3]) \/ CrossIsRow(A[1], A[2], Neg(A[3]))
    /\ CrossIsRow(A[2], A[3], A[1]) \/ CrossIsRow(A[2], A[3], Neg(A[1]))

\* the sign of dot = np.dot(cross_0_1, axes_norm[2])
OrientationDot(A) == Sign(Dot(Cross(A[1], A[2]), A[3]))

\* the orientation check raises
OrientationFails(A, orientation) ==
    \/ orientation = "right" /\ OrientationDot(A) < 0
    \/ orientation = "left" /\ OrientationDot(A) > 0

\* a frame returned by validate_axes: axes_norm (the rows A scaled to unit
\* length) when normalize is true, axes_array (the rows A) otherwise
AxesReturned_AlwaysUnit(A, unit) ==
    [status |-> "ok", stage |-> "return", value |-> NoArray, container |-> "ndarray",
     param |-> "", fname |-> "", frame |-> A, unit |-> TRUE]
AxesReturned(A, unit) ==
    [status |-> "ok", stage |-> "return", value |-> NoArray, container |-> "ndarray",
     param |-> "", fname |-> "", frame |-> A, unit |-> unit]

\* validate_axes(*axes, normalize, must_be_orthogonal, must_have_orientation);
\* must_have_orientation is "none" for None.  The calls of validate_array it
\* makes cast to no integer dtype, so what an undefined cast yields is not
\* consulted.
validate_axes(axes, normalize, must_be_orthogonal, must_have_orientation) ==
    LET n == Len(axes)
        whole == validate_array(axes[1],
                     [NoKw EXCEPT !.must_have_shape = <<OneShape(Shp(<<3, 3>>))>>,
                                  !.dtype_out = <<"float">>], IntMin)
        vec(i) == validate_array3(axes[i], TRUE, FALSE, NoKw, IntMin)
        given == IF n = 1 THEN <<whole>> ELSE [i \in 1..n |-> vec(i)]
        failed == {i \in 1..Len(given) : ~IsOk(given[i])}
        first == CHOOSE i \in failed : \A j \in failed : i <= j
        finite == \A i \in 1..Len(given) : check_finite(given[i].value)
        A == IF n = 1
             THEN <<RowOf(whole.value, 1), RowOf(whole.value, 2), RowOf(whole.value, 3)>>
             ELSE IF n = 3
             THEN <<RowOf(given[1].value, 1), RowOf(given[2].value, 1),
                    RowOf(given[3].value, 1)>>
             ELSE <<RowOf(given[1].value, 1), RowOf(given[2].value, 1),
                    ThirdAxis(RowOf(given[1].value, 1), RowOf(given[2].value, 1),
                              must_have_orientation)>>
    IN  IF n \notin {1, 2, 3}
        THEN Raised("ValueError", "arguments")
        ELSE IF must_have_orientation # "none" /\ must_have_orientation \notin {"right", "left"}
        THEN Raised("ValueError", "orientation_name")
        ELSE IF must_have_orientation = "none" /\ n = 2
        THEN Raised("ValueError", "orientation_needed")
        ELSE IF failed # {}
        THEN given[first]
        ELSE IF ~finite
        THEN Raised("ValueError", "finite")
        ELSE IF AxesParallel(A)
        THEN Raised("ValueError", "parallel")
        ELSE IF AxesZero(A)
        THEN Raised("ValueError", "zeros")
        ELSE IF must_be_orthogonal /\ ~AxesOrthogonal(A)
        THEN Raised("ValueError", "orthogonal")
        ELSE IF must_have_orientation # "none" /\ OrientationFails(A, must_have_orientation)
        THEN Raised("ValueError", "handedness")
        ELSE AxesReturned(A, normalize)

(***************************************************************************)
(* validate_transform4x4 and validate_transform3x3                         *)
(*                                                                         *)
(* A transform-like input is a record [kind, arr]: kind "array" for an     *)
(* array-like arr, or the name of a vtk class ("vtkMatrix4x4",             *)
(* "vtkMatrix3x3", "vtkTransform") whose elements are arr.                 *)
(***************************************************************************)
\* array_from_vtkmatrix: the elements of the vtk matrix as a float array
array_from_vtkmatrix(t) == MkArray(t.arr.shape, t.arr.data, "float")

\* what cast_to_ndarray makes of an object that is no array-like: a 0-d array
\* of dtype object
ObjectArray == MkArray(<<>>, <<Whole(0)>>, "object")

\* the array-like validate_array is handed
TransformArrayLike(t) == IF t.kind = "array" THEN t.arr ELSE ObjectArray

\* np.eye(n), row-major
Eye(n) == [q \in 1..(n * n) |-> IF (q - 1) \div n = (q - 1) % n THEN Whole(1) ELSE Whole(0)]

\* arr = np.eye(4); arr[:3, :3] = a
Embed3x3_Transposed(a) ==
    MkArray(<<4, 4>>,
            [q \in 1..16 |->
                LET i == (q - 1) \div 4
                    j == (q - 1) % 4
                IN  IF i < 3 /\ j < 3 THEN a.data[3 * j + i + 1] ELSE Eye(4)[q]],
            "float")
Embed3x3(a) ==
    MkArray(<<4, 4>>,
            [q \in 1..16 |->
                LET i == (q - 1) \div 4
                    j == (q - 1) % 4
                IN  IF i < 3 /\ j < 3 THEN a.data[3 * i + j + 1] ELSE Eye(4)[q]],
            "float")

\* except ValueError: raise TypeError(...); a TypeError of validate_array is
\* not caught
TransformError(r) == IF r.status = "ValueError" THEN Raised("TypeError", "transform") ELSE r

\* validate_transform4x4(transform)
validate_transform4x4(transform) ==
    LET valid_arr ==
            validate_array(TransformArrayLike(transform),
                [NoKw EXCEPT !.must_have_shape =
                                 <<ShapeList(<<Shp(<<3, 3>>), Shp(<<4, 4>>)>>)>>,
                             !.must_be_finite = <<TRUE>>], IntMin)
    IN  CASE transform.kind = "vtkMatrix4x4" ->
               Returned(array_from_vtkmatrix(transform), "ndarray")
          [] transform.kind = "vtkMatrix3x3" ->
               Returned(Embed3x3(array_from_vtkmatrix(transform)), "ndarray")
          [] transform.kind = "vtkTransform" ->
               Returned(array_from_vtkmatrix(transform), "ndarray")
          [] OTHER ->
               IF ~IsOk(valid_arr) THEN TransformError(valid_arr)
               ELSE IF valid_arr.value.shape = <<3, 3>>
               THEN Returned(Embed3x3(valid_arr.value), "ndarray")
               ELSE Returned(valid_arr.value, "ndarray")

\* validate_transform3x3(transform)
validate_transform3x3(transform) ==
    LET arr == validate_array(TransformArrayLike(transform),
                   [NoKw EXCEPT !.must_have_shape = <<OneShape(Shp(<<3, 3>>))>>], IntMin)
    IN  IF transform.kind = "vtkMatrix3x3"
        THEN Returned(array_from_vtkmatrix(transform), "ndarray")
        ELSE IF ~IsOk(arr) THEN TransformError(arr)
        ELSE Returned(arr.value, "ndarray")

(***************************************************************************)
(* Calls and their state                                                   *)
(***************************************************************************)
\* what a float -> int cast of NaN or an infinity yields: the most negative
\* integer on x86-64, 0 on other platforms
CastOutcomes == {IntMin, Whole(0)}

ArraysOf(shape, vals, dtype) ==
    {MkArray(shape, d, dtype) : d \in [1..Prod(shape) -> vals]}

\* 0-d, and the 1-d, row and column shapes of up to MaxLen elements
SmallShapes == {<<>>} \cup UNION {{<<n>>, <<1, n>>, <<n, 1>>} : n \in 1..MaxLen}

NoArgs == [arr |-> NoArray, kw |-> NoKw]
NoResult == Raised("", "")

Init ==
    /\ pc = "idle"
    /\ fn = ""
    /\ args = NoArgs
    /\ res = NoResult

\* the caller takes the outcome; the validators keep nothing between calls
Return ==
    /\ pc = "done"
    /\ pc' = "idle"
    /\ fn' = ""
    /\ args' = NoArgs
    /\ res' = NoResult

(***************************************************************************)
(* Specification SpecArray: calls of validate_array                        *)
(***************************************************************************)
\* inputs whose shape is what matters
ShapeInputs ==
    UNION {ArraysOf(s, {Whole(0), Whole(1)}, "int") : s \in SmallShapes}

\* inputs whose values are what matters: negative, fractional, whole, NaN, inf
ValueElems == {Fin(-1), Fin(1), Whole(1), NaN, PosInf}
ValueInputs ==
    UNION {ArraysOf(s, ValueElems, "float") : s \in SmallShapes}

\* inputs whose dtype is what matters
DtypeInputs ==
    UNION {ArraysOf(s, {Whole(1)}, dt) : s \in {<<>>, <<1>>}, dt \in {"complex", "bool"}}

Opt(S) == {<<>>} \cup {<<x>> : x \in S}

\* keyword arguments about shape and length, the value checks left off
StructKw ==
    {[NoKw EXCEPT !.must_have_shape = shape, !.reshape_to = reshape,
                  !.broadcast_to = bcast, !.must_have_length = len,
                  !.must_have_min_length = min, !.must_have_max_length = max] :
        shape \in Opt({OneShape(ShpInt(-1)), OneShape(Shp(<<>>)),
                       OneShape(Shp(<<1, -1>>)),
                       ShapeList(<<Shp(<<>>), ShpInt(-1), Shp(<<1, -1>>)>>)}),
        reshape \in Opt({ShpInt(-1), Shp(<<>>), Shp(<<-1, 1>>)}),
        bcast \in Opt({Shp(<<MaxLen>>), Shp(<<MaxLen, MaxLen>>)}),
        len \in Opt({{1}, {MaxLen}}),
        min \in Opt({MaxLen}),
        max \in Opt({1})}

\* keyword arguments about the values, with a reshape or broadcast or cast
ValueKw ==
    {[NoKw EXCEPT !.must_be_nonnegative = nonneg, !.must_be_finite = finite,
                  !.must_be_integer_like = intlike, !.must_be_sorted = sorted,
                  !.must_be_in_range = rng[1], !.strict_lower_bound = rng[2],
                  !.strict_upper_bound = rng[2],
                  !.reshape_to = tr[1], !.broadcast_to = tr[2], !.dtype_out = dt] :
        nonneg \in Opt({TRUE}), finite \in Opt({TRUE}), intlike \in Opt({TRUE}),
        sorted \in Opt({SortedFlag(TRUE), SortedDict(TRUE, TRUE)}),
        rng \in {<<<<>>, <<>>>>,
                 <<<< <<Fin(1), Whole(1)>> >>, <<>>>>,
                 <<<< <<Fin(-1), Whole(1)>> >>, <<TRUE>>>>},
        tr \in {<<<<>>, <<>>>>, <<<<ShpInt(-1)>>, <<>>>>, <<<<>>, <<Shp(<<MaxLen>>)>>>>},
        dt \in Opt({"int"})}

\* keyword arguments about the dtype
DtypeKw ==
    {[NoKw EXCEPT !.must_be_real = real, !.must_have_dtype = dt, !.must_be_finite = fin] :
        real \in Opt({TRUE, FALSE}), dt \in Opt({{"float"}}), fin \in Opt({TRUE})}

\* several constraints of different stages at once, and the output container
MixedKw ==
    {[NoKw EXCEPT !.must_have_shape = shape, !.must_have_length = len,
                  !.must_be_in_range = rng, !.must_be_sorted = sorted,
                  !.to_list = tolist, !.to_tuple = totuple] :
        shape \in Opt({OneShape(Shp(<<>>))}), len \in Opt({{1}}),
        rng \in Opt({<<Fin(1), Whole(1)>>}), sorted \in Opt({SortedFlag(TRUE)}),
        tolist \in Opt(BOOLEAN), totuple \in Opt(BOOLEAN)}

ArrayCalls ==
    (ShapeInputs \X StructKw) \cup (ValueInputs \X ValueKw)
        \cup ((DtypeInputs \cup ArraysOf(<<>>, {Whole(1), NaN}, "float")) \X DtypeKw)
        \cup ((DtypeInputs \cup ValueInputs) \X MixedKw)

ValidateArray ==
    /\ pc = "idle"
    /\ \E c \in ArrayCalls, ub \in CastOutcomes :
          /\ pc' = "done"
          /\ fn' = "validate_array"
          /\ args' = [arr |-> c[1], kw |-> c[2]]
          /\ res' = validate_array(c[1], c[2], ub)

NextArray == ValidateArray \/ Return

SpecArray == Init /\ [][NextArray]_vars

(***************************************************************************)
(* Specification SpecWrap: calls of the specialized wrappers               *)
(***************************************************************************)
\* negative, fractional, whole, NaN and infinite elements
WrapElems == {Fin(-1), Whole(-1), Whole(0), Fin(1), Whole(1), NaN, PosInf}

\* float inputs with free values, of the small shapes
FloatInputs == UNION {ArraysOf(s, WrapElems, "float") : s \in SmallShapes}

\* integer inputs with free values, of the small shapes
IntInputs ==
    UNION {ArraysOf(s, {Whole(-1), Whole(0), Whole(1)}, "int") : s \in SmallShapes}

\* inputs of the shapes the 3-vector and Nx3 wrappers are about (and of some
\* they reject); 0/1 elements, all 1 in the larger ones
VectorShapes ==
    {<<>>, <<1>>, <<2>>, <<3>>, <<4>>, <<1, 3>>, <<3, 1>>, <<1, 1>>, <<1, 2>>, <<3, 3>>}
        \cup {<<n, 3>> : n \in 0..MaxLen}
VectorInputs ==
    UNION {ArraysOf(s, IF Prod(s) <= 3 THEN {Whole(0), Whole(1)} ELSE {Whole(1)}, "int") :
              s \in VectorShapes}

\* numbers and pairs of every dtype
PlainInputs ==
    DtypeInputs
        \cup UNION {ArraysOf(s, {Whole(1), Fin(1), NaN}, "float") : s \in {<<>>, <<1>>}}
        \cup ArraysOf(<<2>>, {Whole(0), Whole(1)}, "float")

\* overrides of the structural arguments the wrappers pin
OverrideKw ==
    {[NoKw EXCEPT !.must_have_shape = shape, !.reshape_to = reshape,
                  !.broadcast_to = bcast] :
        shape \in Opt({OneShape(ShpInt(-1)), OneShape(Shp(<<>>)),
                       OneShape(Shp(<<-1, 3>>)), OneShape(ShpInt(2)),
                       OneShape(Shp(<<2>>)),
                       ShapeList(<<Shp(<<>>), Shp(<<1>>)>>),
                       ShapeList(<<Shp(<<>>), ShpInt(-1), Shp(<<1, -1>>)>>),
                       ShapeList(<<ShpInt(3), Shp(<<-1, 3>>)>>),
                       ShapeList(Array3Shapes(TRUE, FALSE)),
                       ShapeList(Array3Shapes(TRUE, TRUE))}),
        reshape \in Opt({ShpInt(-1), Shp(<<>>), Shp(<<-1, 3>>), Shp(<<3>>)}),
        bcast \in Opt({Shp(<<3>>), ShpInt(3)})}

\* the checks validate_number defaults, and the output container
NumberKw ==
    {[NoKw EXCEPT !.must_be_finite = finite, !.must_be_real = real,
                  !.to_list = tolist, !.to_tuple = totuple] :
        finite \in Opt(BOOLEAN), real \in Opt(BOOLEAN),
        tolist \in Opt(BOOLEAN), totuple \in Opt(BOOLEAN)}

\* overrides of the value checks and of the output dtype the wrappers set
PinKw ==
    {[NoKw EXCEPT !.must_be_integer_like = intlike, !.must_be_nonnegative = nonneg,
                  !.must_be_sorted = sorted, !.dtype_out = dt] :
        intlike \in Opt(BOOLEAN), nonneg \in Opt(BOOLEAN),
        sorted \in Opt({SortedFlag(TRUE), SortedFlag(FALSE), SortedDict(TRUE, TRUE)}),
        dt \in Opt({"int", "int32", "float"})}

\* a few options, for the inputs with free values
FewKw ==
    {[NoKw EXCEPT !.must_be_nonnegative = nonneg, !.dtype_out = dt, !.to_list = tolist] :
        nonneg \in Opt({TRUE}), dt \in Opt({"int32"}), tolist \in Opt({TRUE})}

\* what the callers of SpecWrap pass: (input, keyword arguments)
WrapCalls ==
    (VectorInputs \X OverrideKw)
        \cup ((FloatInputs \cup IntInputs) \X FewKw)
        \cup (PlainInputs \X (NumberKw \cup PinKw))

CallWrapper(f, c, reshape, broadcast, r) ==
    /\ pc' = "done"
    /\ fn' = f
    /\ args' = [arr |-> c[1], kw |-> c[2], reshape |-> reshape, broadcast |-> broadcast]
    /\ res' = r

ValidateNumber ==
    /\ pc = "idle"
    /\ \E c \in WrapCalls, reshape \in BOOLEAN, ub \in CastOutcomes :
          CallWrapper("validate_number", c, reshape, FALSE,
                      validate_number(c[1], reshape, c[2], ub))

ValidateDataRange ==
    /\ pc = "idle"
    /\ \E c \in WrapCalls, ub \in CastOutcomes :
          CallWrapper("validate_data_range", c, FALSE, FALSE,
                      validate_data_range(c[1], c[2], ub))

ValidateArrayNx3 ==
    /\ pc = "idle"
    /\ \E c \in WrapCalls, reshape \in BOOLEAN, ub \in CastOutcomes :
          CallWrapper("validate_arrayNx3", c, reshape, FALSE,
                      validate_arrayNx3(c[1], reshape, c[2], ub))

ValidateArrayN ==
    /\ pc = "idle"
    /\ \E c \in WrapCalls, reshape \in BOOLEAN, ub \in CastOutcomes :
          CallWrapper("validate_arrayN", c, reshape, FALSE,
                      validate_arrayN(c[1], reshape, c[2], ub))

ValidateArrayNUintlike ==
    /\ pc = "idle"
    /\ \E c \in WrapCalls, reshape \in BOOLEAN, ub \in CastOutcomes :
          CallWrapper("validate_arrayN_uintlike", c, reshape, FALSE,
                      validate_arrayN_uintlike(c[1], reshape, c[2], ub))

ValidateArray3 ==
    /\ pc = "idle"
    /\ \E c \in WrapCalls, reshape \in BOOLEAN, broadcast \in BOOLEAN,
          ub \in CastOutcomes :
          CallWrapper("validate_array3", c, reshape, broadcast,
                      validate_array3(c[1], reshape, broadcast, c[2], ub))

NextWrap ==
    \/ ValidateNumber
    \/ ValidateDataRange
    \/ ValidateArrayNx3
    \/ ValidateArrayN
    \/ ValidateArrayNUintlike
    \/ ValidateArray3
    \/ Return

SpecWrap == Init /\ [][NextWrap]_vars

(***************************************************************************)
(* Specification SpecAxes: calls of validate_axes                          *)
(***************************************************************************)
\* the vectors with components -1, 0, 1, scaled by up to MaxScale
Directions == {<<x, y, z>> : x \in {-1, 0, 1}, y \in {-1, 0, 1}, z \in {-1, 0, 1}}
AxisVectors == {<<k * d[1], k * d[2], k * d[3]>> : d \in Directions, k \in 1..MaxScale}

\* the array-like of a vector, and of three vectors as the rows of a matrix
VectorArray(v) == MkArray(<<3>>, <<Whole(v[1]), Whole(v[2]), Whole(v[3])>>, "int")
MatrixArray(a, b, c) ==
    MkArray(<<3, 3>>,
            <<Whole(a[1]), Whole(a[2]), Whole(a[3]),
              Whole(b[1]), Whole(b[2]), Whole(b[3]),
              Whole(c[1]), Whole(c[2]), Whole(c[3])>>, "int")

\* arguments validate_axes rejects for their shape, dtype or values
BadAxis == {MkArray(<<2>>, <<Whole(1), Whole(0)>>, "int"),
            MkArray(<<3>>, <<Whole(1), Whole(1), Whole(1)>>, "bool"),
            MkArray(<<3>>, <<Whole(1), NaN, Whole(0)>>, "float"),
            MkArray(<<3>>, <<PosInf, Whole(0), Whole(0)>>, "float")}

\* the scaled vectors along the coordinate axes
BasisVectors == {v \in AxisVectors : Cardinality({i \in 1..3 : v[i] # 0}) = 1}

\* the argument tuples *axes of the calls
AxesArguments ==
    {<<>>}
        \cup {<<MatrixArray(a, b, c)>> :
                 a \in BasisVectors, b \in BasisVectors, c \in BasisVectors}
        \cup {<<VectorArray(a), VectorArray(b)>> : a \in AxisVectors, b \in AxisVectors}
        \cup {<<VectorArray(a), VectorArray(b), VectorArray(c)>> :
                 a \in AxisVectors, b \in Directions, c \in Directions}
        \cup {<<x, VectorArray(<<0, 1, 0>>)>> : x \in BadAxis}
        \cup {<<VectorArray(<<1, 0, 0>>), VectorArray(<<0, 1, 0>>), x>> : x \in BadAxis}
        \cup {<<VectorArray(a), VectorArray(a), VectorArray(a), VectorArray(a)>> :
                 a \in {<<1, 0, 0>>}}

Orientations == {"right", "left", "none"}

ValidateAxes ==
    /\ pc = "idle"
    /\ \E axes \in AxesArguments, normalize \in BOOLEAN, orthogonal \in BOOLEAN,
          orientation \in Orientations :
          /\ pc' = "done"
          /\ fn' = "validate_axes"
          /\ args' = [axes |-> axes, normalize |-> normalize,
                      must_be_orthogonal |-> orthogonal,
                      must_have_orientation |-> orientation]
          /\ res' = validate_axes(axes, normalize, orthogonal, orientation)

\* a call with an orientation that is neither 'right' nor 'left'
ValidateAxesUnknownOrientation ==
    /\ pc = "idle"
    /\ \E axes \in {<<VectorArray(<<1, 0, 0>>), VectorArray(<<0, 1, 0>>)>>},
          normalize \in BOOLEAN, orthogonal \in BOOLEAN :
          /\ pc' = "done"
          /\ fn' = "validate_axes"
          /\ args' = [axes |-> axes, normalize |-> normalize,
                      must_be_orthogonal |-> orthogonal,
                      must_have_orientation |-> "up"]
          /\ res' = validate_axes(axes, normalize, orthogonal, "up")

NextAxes == ValidateAxes \/ ValidateAxesUnknownOrientation \/ Return

SpecAxes == Init /\ [][NextAxes]_vars

(***************************************************************************)
(* Specification SpecTransform: calls of the transform validators          *)
(***************************************************************************)
\* the element values of a square matrix whose entries off the positions P
\* are those of the identity and whose entries at P are drawn from vals
MatricesOver(n, P, vals, dtype) ==
    {MkArray(<<n, n>>, [q \in 1..(n * n) |-> IF q \in P THEN f[q] ELSE Eye(n)[q]], dtype) :
        f \in [P -> vals]}

\* 3x3 matrices of 0s and 1s; 3x3 matrices with a fraction, NaN or infinity
\* in one place
Matrices3x3 ==
    MatricesOver(3, 1..9, {Whole(0), Whole(1)}, "int")
        \cup UNION {MatricesOver(3, {q}, {Fin(1), NaN, PosInf, NegInf}, "float") : q \in 1..9}
        \cup MatricesOver(3, {}, {Whole(0)}, "complex")
        \cup MatricesOver(3, {}, {Whole(0)}, "bool")

\* 4x4 matrices with a free last row and column, or a special value on the
\* diagonal
Matrices4x4 ==
    MatricesOver(4, {4, 8, 12, 13, 14, 15, 16}, {Whole(0), Whole(1)}, "int")
        \cup UNION {MatricesOver(4, {q}, {Fin(1), NaN, PosInf}, "float") : q \in {1, 6, 16}}
        \cup MatricesOver(4, {}, {Whole(0)}, "complex")

\* arrays of every other small shape
OtherShapes ==
    SmallShapes \cup {<<3>>, <<4>>, <<3, 4>>, <<4, 3>>, <<2, 2>>, <<1, 3, 3>>}

\* what the callers pass as `transform`
TransformInputs ==
    {[kind |-> "array", arr |-> a] :
        a \in Matrices3x3 \cup Matrices4x4
                \cup UNION {ArraysOf(sh, {Whole(1)}, dt) : sh \in OtherShapes,
                                                           dt \in {"int", "float", "bool"}}}
        \cup {[kind |-> k, arr |-> a] :
                 k \in {"vtkMatrix4x4", "vtkTransform"},
                 a \in MatricesOver(4, {4, 8, 12}, {Whole(0), Whole(1)}, "float")}
        \cup {[kind |-> "vtkMatrix3x3", arr |-> a] :
                 a \in MatricesOver(3, {2, 4, 9}, {Whole(0), Whole(1)}, "float")}

ValidateTransform4x4 ==
    /\ pc = "idle"
    /\ \E t \in TransformInputs :
          /\ pc' = "done"
          /\ fn' = "validate_transform4x4"
          /\ args' = [transform |-> t]
          /\ res' = validate_transform4x4(t)

ValidateTransform3x3 ==
    /\ pc = "idle"
    /\ \E t \in TransformInputs :
          /\ pc' = "done"
          /\ fn' = "validate_transform3x3"
          /\ args' = [transform |-> t]
          /\ res' = validate_transform3x3(t)

NextTransform == ValidateTransform4x4 \/ ValidateTransform3x3 \/ Return

SpecTransform == Init /\ [][NextTransform]_vars

(***************************************************************************)
(* Specification SpecValidators: calls of validate_array and of its        *)
(* wrappers                                                                *)
(***************************************************************************)
NextValidators ==
    \/ ValidateArray
    \/ ValidateNumber
    \/ ValidateDataRange
    \/ ValidateArrayNx3
    \/ ValidateArrayN
    \/ ValidateArrayNUintlike
    \/ ValidateArray3
    \/ Return

SpecValidators == Init /\ [][NextValidators]_vars

(***************************************************************************)
(* Specification SpecConcurrent: callers that run validators at the same   *)
(* time on one input array and one dict of keyword arguments               *)
(*                                                                         *)
(* Here pc, fn and res are functions of the caller, and args holds what    *)
(* the callers share: the array `arr` and the dict `kw` each of them       *)
(* passes as f(arr, **kw).  A call takes two steps: it enters f, which     *)
(* binds **kwargs to a new dict holding the items of kw, and it runs the   *)
(* body of f on arr and on that dict.                                      *)
(***************************************************************************)
Callers == 1..NumCallers

\* the validators the callers run, with reshape and broadcast at their defaults
ConcurrentValidators ==
    {"validate_array", "validate_number", "validate_data_range", "validate_arrayN",
     "validate_arrayN_uintlike", "validate_array3"}

\* the body of validator f run on arr and its own kwargs dict
CallValidator(f, arr, kwargs, ub) ==
    CASE f = "validate_array" -> validate_array(arr, kwargs, ub)
      [] f = "validate_number" -> validate_number(arr, TRUE, kwargs, ub)
      [] f = "validate_data_range" -> validate_data_range(arr, kwargs, ub)
      [] f = "validate_arrayN" -> validate_arrayN(arr, TRUE, kwargs, ub)
      [] f = "validate_arrayN_uintlike" -> validate_arrayN_uintlike(arr, TRUE, kwargs, ub)
      [] OTHER -> validate_array3(arr, TRUE, FALSE, kwargs, ub)

\* the parameters f sets in its kwargs dict with _set_default_kwarg_mandatory
PinnedKwargs(f, kwargs) ==
    CASE f = "validate_number" ->
           [kwargs EXCEPT !.reshape_to = <<Shp(<<>>)>>,
                          !.must_have_shape = <<ShapeList(<<Shp(<<>>), Shp(<<1>>)>>)>>]
      [] f = "validate_data_range" ->
           [kwargs EXCEPT !.must_have_shape = <<OneShape(ShpInt(2))>>,
                          !.must_be_sorted = <<DataRangeSorted>>]
      [] f \in {"validate_arrayN", "validate_arrayN_uintlike"} ->
           [(IF f = "validate_arrayN_uintlike" THEN UintlikePins(kwargs) ELSE kwargs)
               EXCEPT !.reshape_to = <<ShpInt(-1)>>,
                      !.must_have_shape =
                          <<ShapeList(<<Shp(<<>>), ShpInt(-1), Shp(<<1, -1>>)>>)>>]
      [] f = "validate_array3" ->
           [kwargs EXCEPT !.reshape_to = <<ShpInt(-1)>>,
                          !.must_have_shape = <<ShapeList(Array3Shapes(TRUE, FALSE))>>]
      [] OTHER -> kwargs

\* the caller's dict after a call: **kwargs is a dict of its own, so what the
\* validator sets in it does not reach the caller's dict
CallerKwargsAfter_Aliased(kw, own) == own
CallerKwargsAfter(kw, own) == kw

\* the arrays and keyword arguments the callers share
SharedInputs ==
    ArraysOf(<<>>, {Whole(1)}, "float")
        \cup ArraysOf(<<2>>, {Whole(0), Whole(1)}, "float")
        \cup ArraysOf(<<1>>, {PosInf, Fin(1)}, "float")

SharedKw ==
    {NoKw,
     [NoKw EXCEPT !.must_be_nonnegative = <<TRUE>>],
     [NoKw EXCEPT !.reshape_to = <<ShpInt(-1)>>],
     [NoKw EXCEPT !.must_have_shape = <<OneShape(ShpInt(2))>>],
     [NoKw EXCEPT !.dtype_out = <<"int">>, !.to_list = <<TRUE>>]}

NoLocal == [kwargs |-> NoKw, outcome |-> NoResult]

InitConcurrent ==
    /\ pc = [p \in Callers |-> "idle"]
    /\ fn = [p \in Callers |-> ""]
    /\ args \in [arr : SharedInputs, kw : SharedKw]
    /\ res = [p \in Callers |-> NoLocal]

\* caller p calls f(arr, **kw): the items of kw are collected in a new dict
Enter(p) ==
    /\ pc[p] = "idle"
    /\ \E f \in ConcurrentValidators :
          /\ pc' = [pc EXCEPT ![p] = "entered"]
          /\ fn' = [fn EXCEPT ![p] = f]
          /\ res' = [res EXCEPT ![p] = [kwargs |-> args.kw, outcome |-> NoResult]]
    /\ UNCHANGED args

\* the body of the validator runs on the shared array and on its own dict
Run(p) ==
    /\ pc[p] = "entered"
    /\ \E ub \in CastOutcomes :
          res' = [res EXCEPT ![p].outcome = CallValidator(fn[p], args.arr, res[p].kwargs, ub),
                             ![p].kwargs = PinnedKwargs(fn[p], res[p].kwargs)]
    /\ pc' = [pc EXCEPT ![p] = "done"]
    /\ args' = [args EXCEPT !.kw = CallerKwargsAfter(args.kw, PinnedKwargs(fn[p], res[p].kwargs))]
    /\ UNCHANGED fn

\* the caller takes the outcome; the dict of the call is dropped
Leave(p) ==
    /\ pc[p] = "done"
    /\ pc' = [pc EXCEPT ![p] = "idle"]
    /\ fn' = [fn EXCEPT ![p] = ""]
    /\ res' = [res EXCEPT ![p] = NoLocal]
    /\ UNCHANGED args

EnterCall == \E p \in Callers : Enter(p)
RunCall == \E p \in Callers : Run(p)
LeaveCall == \E p \in Callers : Leave(p)

NextConcurrent == EnterCall \/ RunCall \/ LeaveCall

SpecConcurrent == InitConcurrent /\ [][NextConcurrent]_vars

(***************************************************************************)
(* Claims about validate_array (checked under SpecArray)                   *)
(***************************************************************************)
Called(f) == pc = "done" /\ fn = f

\* the input as it is after reshape_to and broadcast_to have been applied
Transformed(arr, kw) == BroadcastStep(ReshapeStep(arr, kw), kw)

\* the call got past the type, shape, reshape and broadcast steps
PastStructure(r) ==
    r.stage \notin {"real", "numeric", "dtype", "shape", "reshape", "broadcast"}

\* C1: an input whose original shape does not match must_have_shape makes
\* validate_array fail, whatever reshape_to is (the reshape never runs before
\* the shape check).
C1_ShapeCheckedBeforeReshape ==
    (/\ Called("validate_array")
     /\ Has(args.kw.must_have_shape)
     /\ ~check_shape(args.arr, Get(args.kw.must_have_shape)))
        => ~IsOk(res)

\* C1 witness: a rejected input that the requested reshape would have made
\* match must_have_shape.
C1_Witness ==
    /\ Called("validate_array")
    /\ Has(args.kw.must_have_shape)
    /\ ~check_shape(args.arr, Get(args.kw.must_have_shape))
    /\ Has(args.kw.reshape_to)
    /\ ~ReshapeFails(args.arr, args.kw)
    /\ check_shape(ReshapeStep(args.arr, args.kw), Get(args.kw.must_have_shape))
    /\ res.status = "ValueError"
    /\ res.stage = "shape"

\* C2: when validate_array reaches its length check, the check passes exactly
\* when the array as reshaped and broadcast has an allowed length.
C2_LengthMeasuredAfterTransform ==
    (/\ Called("validate_array")
     /\ PastStructure(res)
     /\ \/ Has(args.kw.must_have_length)
        \/ Has(args.kw.must_have_min_length)
        \/ Has(args.kw.must_have_max_length))
        => (res.stage # "length"
               <=> check_length(Transformed(args.arr, args.kw),
                                args.kw.must_have_length,
                                args.kw.must_have_min_length,
                                args.kw.must_have_max_length))

\* every value constraint requested in kw holds of the array a
SatisfiesAll(a, kw) == ValueCheckFailure(a, kw) = ""

\* C3 as stated: whenever validate_array returns, the returned value itself
\* satisfies every requested value constraint.
C3_ReturnedValueSatisfiesAll ==
    (Called("validate_array") /\ IsOk(res)) => SatisfiesAll(res.value, args.kw)

\* C3 amended: whenever validate_array returns, the array as reshaped and
\* broadcast, before the dtype_out cast, satisfies every requested value
\* constraint, and so does the returned value when no dtype_out is given or
\* the cast leaves every value unchanged.
C3_CheckedBeforeCast ==
    (Called("validate_array") /\ IsOk(res)) =>
        /\ SatisfiesAll(Transformed(args.arr, args.kw), args.kw)
        /\ (\/ ~Has(args.kw.dtype_out)
            \/ res.value.data = Transformed(args.arr, args.kw).data)
              => SatisfiesAll(res.value, args.kw)

\* C3 witness: a reshaped input returned through a cast with several value
\* constraints requested at once.
C3_Witness ==
    /\ Called("validate_array")
    /\ IsOk(res)
    /\ Has(args.kw.dtype_out)
    /\ Has(args.kw.reshape_to)
    /\ args.arr.shape # res.value.shape
    /\ Len(res.value.data) >= 2
    /\ GetOr(args.kw.must_be_nonnegative, FALSE)
    /\ GetOr(args.kw.must_be_finite, FALSE)
    /\ Has(args.kw.must_be_in_range)
    /\ Has(args.kw.must_be_sorted)
    /\ res.value.data = args.arr.data

(***************************************************************************)
(* Claims about the wrappers (checked under SpecWrap)                      *)
(***************************************************************************)
Wrappers == {"validate_number", "validate_array3", "validate_arrayN",
             "validate_arrayN_uintlike", "validate_arrayNx3", "validate_data_range"}

\* the caller passes none of the structural arguments
NoStructuralKw(kw) ==
    /\ kw.must_have_shape = <<>>
    /\ kw.reshape_to = <<>>
    /\ kw.broadcast_to = <<>>

\* the call got past the type checks
PastType(r) == r.stage \notin {"real", "numeric", "dtype", "dtype_out"}

\* the call was not rejected for its shape, and what it returns has shape s
ShapedAs(r, s) ==
    /\ r.stage \notin {"override", "shape", "reshape", "broadcast"}
    /\ IsOk(r) => r.value.shape = s

\* C4: every input of a shape the wrapper accepts is taken and returned in the
\* wrapper's canonical shape: 0-d for validate_number, (3,) for
\* validate_array3, (N,) for validate_arrayN, (N,3) for validate_arrayNx3.
C4_CanonicalShape ==
    (pc = "done" /\ fn \in Wrappers /\ NoStructuralKw(args.kw) /\ PastType(res)) =>
        LET S == args.arr.shape
        IN  /\ (fn = "validate_number" /\ args.reshape /\ S \in {<<>>, <<1>>})
                  => ShapedAs(res, <<>>)
            /\ (/\ fn = "validate_array3"
                /\ \/ S = <<3>>
                   \/ args.reshape /\ S \in {<<1, 3>>, <<3, 1>>}
                   \/ args.broadcast /\ S \in {<<>>, <<1>>})
                  => ShapedAs(res, <<3>>)
            /\ (/\ fn = "validate_arrayN"
                /\ args.reshape
                /\ \/ S = <<>>
                   \/ Len(S) = 1
                   \/ Len(S) = 2 /\ S[1] = 1)
                  => ShapedAs(res, <<Size(args.arr)>>)
            /\ (/\ fn = "validate_arrayNx3"
                /\ args.reshape
                /\ \/ S = <<3>>
                   \/ Len(S) = 2 /\ S[2] = 3)
                  => ShapedAs(res, <<Size(args.arr) \div 3, 3>>)

\* C4 witness: a column vector returned as a 3-vector.
C4_Witness ==
    /\ Called("validate_array3")
    /\ args.arr.shape = <<3, 1>>
    /\ NoStructuralKw(args.kw)
    /\ IsOk(res)
    /\ res.value.shape = <<3>>

\* the parameters a wrapper pins, with the pinned values
Pins(f, reshape, broadcast) ==
    CASE f = "validate_number" ->
           (IF reshape THEN {<<"reshape_to", Shp(<<>>)>>} ELSE {})
               \cup {<<"must_have_shape",
                       IF reshape THEN ShapeList(<<Shp(<<>>), Shp(<<1>>)>>)
                       ELSE OneShape(Shp(<<>>))>>}
      [] f = "validate_array3" ->
           (IF reshape THEN {<<"reshape_to", ShpInt(-1)>>} ELSE {})
               \cup (IF broadcast THEN {<<"broadcast_to", Shp(<<3>>)>>} ELSE {})
               \cup {<<"must_have_shape", ShapeList(Array3Shapes(reshape, broadcast))>>}
      [] f \in {"validate_arrayN", "validate_arrayN_uintlike"} ->
           (IF reshape THEN {<<"reshape_to", ShpInt(-1)>>} ELSE {})
               \cup {<<"must_have_shape",
                       IF reshape
                       THEN ShapeList(<<Shp(<<>>), ShpInt(-1), Shp(<<1, -1>>)>>)
                       ELSE OneShape(ShpInt(-1))>>}
               \cup (IF f = "validate_arrayN_uintlike"
                     THEN {<<"must_be_integer_like", TRUE>>, <<"must_be_nonnegative", TRUE>>}
                     ELSE {})
      [] f = "validate_arrayNx3" ->
           (IF reshape THEN {<<"reshape_to", Shp(<<-1, 3>>)>>} ELSE {})
               \cup {<<"must_have_shape",
                       IF reshape THEN ShapeList(<<ShpInt(3), Shp(<<-1, 3>>)>>)
                       ELSE OneShape(Shp(<<-1, 3>>))>>}
      [] f = "validate_data_range" ->
           {<<"must_have_shape", OneShape(ShpInt(2))>>, <<"must_be_sorted", SortedFlag(TRUE)>>}
      [] OTHER -> {}

\* the pinned parameters the caller passes with another value
Overridden(f, a) ==
    {p[1] : p \in {q \in Pins(f, a.reshape, a.broadcast) :
                      a.kw[q[1]] # <<>> /\ Get(a.kw[q[1]]) # q[2]}}

\* validate_arrayN_uintlike rejects a non-integer dtype_out before anything else
BadDtypeOut(f, a) ==
    /\ f = "validate_arrayN_uintlike"
    /\ Has(a.kw.dtype_out)
    /\ ~IsIntegerDtype(Get(a.kw.dtype_out))

\* C5 as stated: a call that overrides a pinned parameter fails before the
\* array is validated, with an error naming an overridden parameter and the
\* wrapper the caller invoked.
C5_OverrideNamesInvokedWrapper ==
    (/\ pc = "done"
     /\ fn \in Wrappers
     /\ Overridden(fn, args) # {}
     /\ ~BadDtypeOut(fn, args))
        => /\ res.stage = "override"
           /\ res.param \in Overridden(fn, args)
           /\ res.fname = fn

\* the function whose body pins the parameter
PinnedBy(f, key) ==
    IF f = "validate_arrayN_uintlike" /\ key \in {"reshape_to", "must_have_shape"}
    THEN "validate_arrayN"
    ELSE f

\* C5 amended: a call that overrides a pinned parameter fails before the array
\* is validated, with an error naming an overridden parameter and the function
\* whose body pins it: the wrapper invoked, but validate_arrayN for reshape_to
\* and must_have_shape overridden through validate_arrayN_uintlike.
C5_OverrideNamesPinningFunction ==
    (/\ pc = "done"
     /\ fn \in Wrappers
     /\ Overridden(fn, args) # {}
     /\ ~BadDtypeOut(fn, args))
        => /\ res.stage = "override"
           /\ res.param \in Overridden(fn, args)
           /\ res.fname = PinnedBy(fn, res.param)

\* C5 witness: reshape_to overridden through validate_arrayN_uintlike.
C5_Witness ==
    /\ Called("validate_arrayN_uintlike")
    /\ "reshape_to" \in Overridden(fn, args)
    /\ res.stage = "override"
    /\ res.param = "reshape_to"
    /\ res.fname = "validate_arrayN"

\* C6 as stated: only TypeError and ValueError are raised, and a rejected
\* override is a TypeError.
C6_OverrideIsTypeError ==
    (pc = "done" /\ fn \in Wrappers) =>
        /\ res.status \in {"ok", "TypeError", "ValueError"}
        /\ res.stage = "override" => res.status = "TypeError"

\* C6 amended: only TypeError and ValueError are raised, and a rejected
\* override is a ValueError.
C6_OverrideIsValueError ==
    (pc = "done" /\ fn \in Wrappers) =>
        /\ res.status \in {"ok", "TypeError", "ValueError"}
        /\ Overridden(fn, args) # {} /\ ~BadDtypeOut(fn, args)
              => res.stage = "override" /\ res.status = "ValueError"

\* C6 witness: a rejected override of must_be_sorted in validate_data_range.
C6_Witness ==
    /\ Called("validate_data_range")
    /\ Overridden(fn, args) = {"must_be_sorted"}
    /\ res.stage = "override"
    /\ res.status = "ValueError"

\* the input holds NaN or an infinity
HasNonFinite(a) == \E x \in Elems(a) : ~IsFinite(x)

\* C7 as stated: validate_number never returns for a NaN, infinite or
\* non-real input, whatever keyword arguments the caller passes.
C7_NumberAlwaysFiniteReal ==
    (Called("validate_number") /\ (HasNonFinite(args.arr) \/ ~check_real(args.arr)))
        => ~IsOk(res)

\* C7 amended: validate_number checks finiteness and realness by default: it
\* never returns for a NaN or infinite input unless the caller passes
\* must_be_finite=False, nor for a non-real input unless the caller passes
\* must_be_real=False.
C7_NumberFiniteRealByDefault ==
    Called("validate_number") =>
        /\ (HasNonFinite(args.arr) /\ GetOr(args.kw.must_be_finite, TRUE)) => ~IsOk(res)
        /\ (~check_real(args.arr) /\ GetOr(args.kw.must_be_real, TRUE)) => ~IsOk(res)

\* C7 witness: NaN rejected by the default finiteness check.
C7_Witness ==
    /\ Called("validate_number")
    /\ args.arr.data = <<NaN>>
    /\ args.kw.must_be_finite = <<>>
    /\ res.status = "ValueError"
    /\ res.stage = "finite"

\* the caller passes nothing but an integer dtype_out, to_list or
\* must_be_nonnegative=True
PlainUintlikeCall(kw) ==
    /\ \A n \in KwNames \ {"dtype_out", "to_list", "must_be_nonnegative"} : kw[n] = <<>>
    /\ kw.must_be_nonnegative \in {<<>>, <<TRUE>>}
    /\ Has(kw.dtype_out) => IsIntegerDtype(Get(kw.dtype_out))

\* C8: validate_arrayN_uintlike returns a 1-d array of non-negative whole
\* numbers as an integer array equal to floor(input), and raises for an input
\* with a negative or fractional element instead of truncating it.
C8_UintlikeFloorOrRaise ==
    Called("validate_arrayN_uintlike") =>
        /\ (/\ PlainUintlikeCall(args.kw)
            /\ Len(args.arr.shape) = 1
            /\ check_real(args.arr)
            /\ \A x \in Elems(args.arr) : x.k = "fin" /\ x.v % 2 = 0 /\ x.v >= 0)
              => /\ IsOk(res)
                 /\ IsIntegerDtype(res.value.dtype)
                 /\ res.value.shape = args.arr.shape
                 /\ res.value.data =
                        [i \in 1..Len(args.arr.data) |-> Floor(args.arr.data[i])]
        /\ (\E x \in Elems(args.arr) :
               Lt(x, Whole(0)) \/ (x.k = "fin" /\ x.v % 2 # 0))
              => ~IsOk(res)

\* C8 witness: a float array of whole numbers returned as an integer array.
C8_Witness ==
    /\ Called("validate_arrayN_uintlike")
    /\ args.arr.dtype = "float"
    /\ args.arr.shape = <<MaxLen>>
    /\ IsOk(res)
    /\ res.value.dtype = "int"
    /\ res.value.data = args.arr.data

\* C9: validate_data_range with default options returns the pair (a, b) as a
\* tuple when a <= b, raises ValueError when a > b, and rejects every input
\* that is not a 1-d array of two elements.
C9_DataRange ==
    Called("validate_data_range") =>
        /\ (args.kw = NoKw /\ args.arr.shape = <<2>> /\ check_real(args.arr)) =>
              LET a == args.arr.data[1]
                  b == args.arr.data[2]
              IN  /\ Le(a, b) => /\ IsOk(res)
                                 /\ res.container = "tuple"
                                 /\ res.value.shape = <<2>>
                                 /\ res.value.data = <<a, b>>
                  /\ Lt(b, a) => res.status = "ValueError"
        /\ args.arr.shape # <<2>> => ~IsOk(res)

\* C9 witness: equal bounds returned as a tuple.
C9_Witness ==
    /\ Called("validate_data_range")
    /\ args.kw = NoKw
    /\ args.arr.data = <<Fin(1), Fin(1)>>
    /\ IsOk(res)
    /\ res.container = "tuple"

(***************************************************************************)
(* Claims about validate_axes (checked under SpecAxes)                     *)
(***************************************************************************)
\* the whole-number vector of a 3-vector argument, in quarters
Quarters(a) == <<2 * a.data[1].v, 2 * a.data[2].v, 2 * a.data[3].v>>

\* the call passes two 3-vectors that are non-zero and orthogonal
TwoOrthogonalVectors ==
    /\ Called("validate_axes")
    /\ Len(args.axes) = 2
    /\ \A i \in 1..2 : args.axes[i].shape = <<3>> /\ check_real(args.axes[i])
                          /\ check_finite(args.axes[i])
    /\ Quarters(args.axes[1]) # <<0, 0, 0>>
    /\ Quarters(args.axes[2]) # <<0, 0, 0>>
    /\ Dot(Quarters(args.axes[1]), Quarters(args.axes[2])) = 0

\* the cross product, in quarters, of two vectors given in quarters
CrossQ(a, b) == <<Cross(a, b)[1] \div 4, Cross(a, b)[2] \div 4, Cross(a, b)[3] \div 4>>

\* C10: from two orthogonal non-zero vectors a, b validate_axes returns the
\* frame (a, b, a x b) for 'right' and (a, b, b x a) for 'left', whose triple
\* product has the sign of the requested handedness; for e1, e2 that is the
\* identity frame and the frame with third axis -e3.  With two vectors and
\* must_have_orientation=None it raises ValueError.
C10_TwoVectorFrame ==
    /\ TwoOrthogonalVectors =>
          LET a == Quarters(args.axes[1])
              b == Quarters(args.axes[2])
              o == args.must_have_orientation
          IN  /\ o = "right" =>
                    /\ IsOk(res)
                    /\ res.frame = <<a, b, CrossQ(a, b)>>
                    /\ res.unit = args.normalize
                    /\ OrientationDot(res.frame) > 0
              /\ o = "left" =>
                    /\ IsOk(res)
                    /\ res.frame = <<a, b, CrossQ(b, a)>>
                    /\ res.unit = args.normalize
                    /\ OrientationDot(res.frame) < 0
              /\ (a = <<4, 0, 0>> /\ b = <<0, 4, 0>> /\ o = "right")
                    => res.frame = <<a, b, <<0, 0, 4>>>>
              /\ (a = <<4, 0, 0>> /\ b = <<0, 4, 0>> /\ o = "left")
                    => res.frame = <<a, b, <<0, 0, -4>>>>
    /\ (Called("validate_axes") /\ Len(args.axes) = 2 /\ args.must_have_orientation = "none")
          => res.status = "ValueError"

\* C10 witness: the left-handed frame built from e1, e2.
C10_Witness ==
    /\ TwoOrthogonalVectors
    /\ args.must_have_orientation = "left"
    /\ args.normalize
    /\ Quarters(args.axes[1]) = <<4, 0, 0>>
    /\ Quarters(args.axes[2]) = <<0, 4, 0>>
    /\ IsOk(res)
    /\ res.unit
    /\ res.frame[3] = <<0, 0, -4>>

\* the arguments are one real finite (3,3) array, or two or three real finite
\* 3-vectors
WellFormedAxes ==
    /\ Called("validate_axes")
    /\ Len(args.axes) \in 1..3
    /\ \A i \in 1..Len(args.axes) :
          /\ check_real(args.axes[i])
          /\ check_finite(args.axes[i])
          /\ args.axes[i].shape = (IF Len(args.axes) = 1 THEN <<3, 3>> ELSE <<3>>)

\* the axes the caller supplies, in quarters
SuppliedRows ==
    IF Len(args.axes) = 1
    THEN <<RowOf(args.axes[1], 1), RowOf(args.axes[1], 2), RowOf(args.axes[1], 3)>>
    ELSE [i \in 1..Len(args.axes) |-> RowOf(args.axes[i], 1)]

\* the call gets as far as the checks made on the assembled frame
ReachesFrameChecks ==
    /\ WellFormedAxes
    /\ \/ args.must_have_orientation \in {"right", "left"}
       \/ args.must_have_orientation = "none" /\ Len(args.axes) # 2

\* the three rows of the assembled frame, in quarters
AssembledRows ==
    IF Len(args.axes) = 2
    THEN <<SuppliedRows[1], SuppliedRows[2],
           ThirdAxis(SuppliedRows[1], SuppliedRows[2], args.must_have_orientation)>>
    ELSE SuppliedRows

\* C11: validate_axes raises ValueError whenever two supplied axes are
\* identical or a supplied axis is the zero vector, whatever the number of
\* arguments, the lengths and the options; it never returns a frame with a zero
\* row or two equal rows.
C11_IdenticalOrZeroRaises ==
    /\ (/\ WellFormedAxes
        /\ \/ \E i \in 1..Len(SuppliedRows) : SuppliedRows[i] = <<0, 0, 0>>
           \/ \E i, j \in 1..Len(SuppliedRows) : i < j /\ SuppliedRows[i] = SuppliedRows[j])
          => res.status = "ValueError"
    /\ (Called("validate_axes") /\ IsOk(res)) =>
          /\ \A i \in 1..3 : res.frame[i] # <<0, 0, 0>>
          /\ \A i, j \in 1..3 : i < j => res.frame[i] # res.frame[j]

\* C12: a frame returned for 'right' has a strictly positive scalar triple
\* product (axis0 x axis1) . axis2, and one returned for 'left' a strictly
\* negative one.
C12_ReturnedOrientationStrict ==
    (Called("validate_axes") /\ IsOk(res)) =>
        /\ args.must_have_orientation = "right" => OrientationDot(res.frame) > 0
        /\ args.must_have_orientation = "left" => OrientationDot(res.frame) < 0

\* two non-zero vectors are parallel or anti-parallel
Collinear(a, b) ==
    /\ a # <<0, 0, 0>>
    /\ b # <<0, 0, 0>>
    /\ Cross(a, b) = <<0, 0, 0>>

\* C17: the 'cannot be parallel' error is raised exactly when some pair (0,1),
\* (0,2), (1,2) of the assembled axes is parallel or anti-parallel, whatever
\* the lengths of the axes.
C17_ParallelTestNormalized ==
    ReachesFrameChecks =>
        (res.stage = "parallel"
            <=> \E i, j \in 1..3 :
                   i < j /\ Collinear(AssembledRows[i], AssembledRows[j]))

\* C20: validate_axes returns the frame with unit rows when normalize is true
\* and otherwise the frame of the supplied vectors themselves (with two vectors
\* the third row is their raw cross product); the same call with the other
\* value of normalize is accepted or rejected alike, with the same error and
\* the same frame up to the scaling.
C20_NormalizeOnlyScales ==
    Called("validate_axes") =>
        LET other == validate_axes(args.axes, ~args.normalize, args.must_be_orthogonal,
                                   args.must_have_orientation)
        IN  /\ IsOk(res) => /\ res.unit = args.normalize
                            /\ res.frame = AssembledRows
            /\ other.status = res.status
            /\ other.stage = res.stage
            /\ IsOk(res) => /\ other.frame = res.frame
                            /\ other.unit = ~res.unit

\* C20 witness: two vectors of length sqrt(2) returned un-normalized, the third
\* row their raw cross product of length 2.
C20_Witness ==
    /\ Called("validate_axes")
    /\ Len(args.axes) = 2
    /\ ~args.normalize
    /\ IsOk(res)
    /\ ~res.unit
    /\ res.frame = <<<<4, 4, 0>>, <<4, -4, 0>>, <<0, 0, -8>>>>

(***************************************************************************)
(* Claims about the transform validators (checked under SpecTransform)     *)
(***************************************************************************)
\* the call passes an array-like of real, finite values
RealFiniteArray(t) == t.kind = "array" /\ check_real(t.arr) /\ check_finite(t.arr)

\* the 4x4 array m has the 3x3 array a as its upper-left block and the entries
\* of the identity elsewhere
EmbedsBlock(m, a) ==
    /\ m.shape = <<4, 4>>
    /\ \A i, j \in 0..3 :
          m.data[4 * i + j + 1] =
              IF i < 3 /\ j < 3 THEN a.data[3 * i + j + 1]
              ELSE IF i = j THEN Whole(1) ELSE Whole(0)

C18_Transform3x3Embeddable ==
    (Called("validate_transform3x3") /\ args.transform.kind = "array" /\ IsOk(res)) =>
        /\ IsOk(validate_transform4x4(args.transform))
        /\ EmbedsBlock(validate_transform4x4(args.transform).value, res.value)

(***************************************************************************)
(* Claims about validate_array and its wrappers together (checked under    *)
(* SpecValidators)                                                         *)
(***************************************************************************)
\* the caller passes no reshape, broadcast, dtype or container argument
NoTransformKw(kw) ==
    /\ kw.reshape_to = <<>>
    /\ kw.broadcast_to = <<>>
    /\ kw.dtype_out = <<>>
    /\ kw.to_list = <<>>
    /\ kw.to_tuple = <<>>

\* the validator of the call applied, with the arguments of the call, to x
SameCallOn(x, ub) ==
    CASE fn = "validate_array" -> validate_array(x, args.kw, ub)
      [] fn = "validate_number" -> validate_number(x, args.reshape, args.kw, ub)
      [] fn = "validate_data_range" -> validate_data_range(x, args.kw, ub)
      [] fn = "validate_arrayNx3" -> validate_arrayNx3(x, args.reshape, args.kw, ub)
      [] fn = "validate_arrayN" -> validate_arrayN(x, args.reshape, args.kw, ub)
      [] fn = "validate_arrayN_uintlike" ->
           validate_arrayN_uintlike(x, args.reshape, args.kw, ub)
      [] OTHER -> validate_array3(x, args.reshape, args.broadcast, args.kw, ub)

\* C14: a call of validate_array or of a wrapper that passes no reshape,
\* broadcast, dtype or container argument and is given an array of the shape it
\* returns, returns the values of the input; and validating what the call
\* returned again returns the same.
C14_Idempotent ==
    (/\ pc = "done"
     /\ fn \in Wrappers \cup {"validate_array"}
     /\ NoTransformKw(args.kw)
     /\ IsOk(res)) =>
        /\ args.arr.shape = res.value.shape => res.value.data = args.arr.data
        /\ \A ub \in CastOutcomes :
              /\ IsOk(SameCallOn(res.value, ub))
              /\ SameCallOn(res.value, ub).value = res.value
              /\ SameCallOn(res.value, ub).container = res.container

(***************************************************************************)
(* Claims about concurrent callers (checked under SpecConcurrent)          *)
(***************************************************************************)
\* C15: however the calls of several callers that share an input array and a
\* dict of keyword arguments interleave, the array and the dict are never
\* changed, and the outcome of each call is one the call has when it runs
\* alone on them.
C15_CallsIndependent ==
    /\ [](\A p \in Callers :
             pc[p] = "done" =>
                 \E ub \in CastOutcomes :
                    res[p].outcome = CallValidator(fn[p], args.arr, args.kw, ub))
    /\ [][args' = args]_vars

\* C15 witness: two calls on the same array and the same dict have both
\* finished, one of a wrapper that pinned a parameter and returned, the other
\* of a wrapper that rejected the dict's item as an override.
C15_Witness ==
    /\ pc[1] = "done"
    /\ pc[2] = "done"
    /\ fn[1] = "validate_data_range"
    /\ fn[2] = "validate_arrayN"
    /\ Has(args.kw.must_have_shape)
    /\ IsOk(res[1].outcome)
    /\ res[1].kwargs # args.kw
    /\ res[2].outcome.stage = "override"

(***************************************************************************)
(* Claims about the order of validate_array's stages (checked under        *)
(* SpecArray) and about its output container (checked under                *)
(* SpecValidators)                                                         *)
(***************************************************************************)
\* the input fails the type stage
TypeCheckFails(a, kw) ==
    \/ GetOr(kw.must_be_real, TRUE) /\ ~check_real(a)
    \/ ~GetOr(kw.must_be_real, TRUE) /\ ~check_numeric(a)
    \/ Has(kw.must_have_dtype) /\ ~check_subdtype(a, Get(kw.must_have_dtype))

\* the input fails the shape stage
ShapeCheckFails(a, kw) == Has(kw.must_have_shape) /\ ~check_shape(a, Get(kw.must_have_shape))

ValueStages == {"nonnegative", "finite", "integer_like", "range", "sorted"}

\* C16: validate_array fails at the earliest stage, in the order type, shape,
\* reshape, broadcast, length, value checks, that the input does not pass; an
\* error of a value check means every structural stage was passed, and the
\* dtype and container casts come last.
C16_StagesInOrder ==
    Called("validate_array") =>
        LET a == args.arr
            kw == args.kw
            type == TypeCheckFails(a, kw)
            shape == ShapeCheckFails(a, kw)
            reshape == ReshapeFails(a, kw)
        IN  /\ type => res.status = "TypeError" /\ res.stage \in {"real", "numeric", "dtype"}
            /\ (~type /\ shape) => res.status = "ValueError" /\ res.stage = "shape"
            /\ (~type /\ ~shape /\ reshape) => res.stage = "reshape"
            /\ (~type /\ ~shape /\ ~reshape /\ BroadcastFails(ReshapeStep(a, kw), kw))
                  => res.stage = "broadcast"
            /\ res.stage \in ValueStages \cup {"length", "return"} =>
                  /\ ~type
                  /\ ~shape
                  /\ ~reshape
                  /\ ~BroadcastFails(ReshapeStep(a, kw), kw)
            /\ res.stage \in ValueStages \cup {"return"} =>
                  check_length(LengthCheckSubject(a, Transformed(a, kw)),
                               kw.must_have_length, kw.must_have_min_length,
                               kw.must_have_max_length)
            /\ res.stage \in ValueStages =>
                  res.stage = ValueCheckFailure(Transformed(a, kw), kw)
            /\ IsOk(res) => /\ ValueCheckFailure(Transformed(a, kw), kw) = ""
                            /\ res.value.shape = Transformed(a, kw).shape

\* C16 witness: an input of the wrong shape and length that is out of range
\* and unsorted fails with the shape error.
C16_Witness ==
    /\ Called("validate_array")
    /\ ShapeCheckFails(args.arr, args.kw)
    /\ Has(args.kw.must_have_length)
    /\ ~check_length(args.arr, args.kw.must_have_length, <<>>, <<>>)
    /\ Has(args.kw.must_be_in_range)
    /\ ~check_range(args.arr, Get(args.kw.must_be_in_range), FALSE, FALSE)
    /\ Has(args.kw.must_be_sorted)
    /\ ~check_sorted(args.arr, TRUE, FALSE)
    /\ res.status = "ValueError"
    /\ res.stage = "shape"

\* C19: validate_array returns a tuple when to_tuple is true, a list when only
\* to_list is true and an array otherwise (a plain number for a 0-d result of
\* the first two); validate_number returns a plain number by default;
\* validate_data_range returns a tuple unless the caller passes to_list=True
\* or to_tuple=False.
C19_OutputContainer ==
    (pc = "done" /\ IsOk(res)) =>
        LET totuple == GetOr(args.kw.to_tuple, FALSE)
            tolist == GetOr(args.kw.to_list, FALSE)
            scalar == res.value.shape = <<>>
        IN  /\ fn = "validate_array" =>
                  res.container =
                      (IF totuple THEN (IF scalar THEN "number" ELSE "tuple")
                       ELSE IF tolist THEN (IF scalar THEN "number" ELSE "list")
                       ELSE "ndarray")
            /\ (fn = "validate_number" /\ args.kw = NoKw) => res.container = "number"
            /\ (fn = "validate_data_range" /\ ~tolist /\ args.kw.to_tuple # <<FALSE>>)
                  => res.container = "tuple"

====
